---- MODULE Spec2Model ----
(***************************************************************************)
(* PyC2A: decoding of Campbell Scientific TOB2/TOB3 files.                 *)
(*                                                                         *)
(*   Spec      the frame loop of camp2ascii (camp2ascii.py) over a binary  *)
(*             frame stream, with the readers of file_handler.py and       *)
(*             cs_types.py, and the call made by main.py                   *)
(*   SpecFP2   FP2.from_bytes over every 2-byte input                      *)
(*   SpecNSEC  NSEC.from_bytes over 8-byte inputs                          *)
(*   SpecTypes the choice of the decode path from the column dtypes        *)
(*                                                                         *)
(* Time is counted in whole units (the resolution of the interval line);   *)
(* a data row is identified by <<frame index in the file, row in frame>>.  *)
(***************************************************************************)
EXTENDS Integers, Sequences, FiniteSets

VARIABLES
    args,       \* [entry, chunksize, nlines]: how the decoder is called
    file,       \* [fmt, frame_size, row_stride, intended_table_size, nfile, tail]
    pc,         \* position in camp2ascii: call, first, loop, done
    pos,        \* byte offset of the reader f in the binary region
    schema,     \* [frame_data_size, frame_nrows, nframes] once derived
    hdrs,       \* header values of the frames read so far, in file order
    t_start,    \* the reference clock of the frame loop
    framenum,   \* the loop variable
    frames,     \* the list `frames`: a template slot or a stamped frame
    warned,     \* the warnings issued, in order
    status,     \* running, ok, or the uncaught exception
    table,      \* the rows of the returned DataFrame
    chunks,     \* the tables the caller received from a chunked run
    fp2,        \* [b0, b1, done, out]: input and result of FP2.from_bytes
    nsec,       \* [b, done, out]: input and result of NSEC.from_bytes
    sel         \* [file_dtypes, done, is_vector_readable, parser]: decode path

vars == <<args, file, pc, pos, schema, hdrs, t_start, framenum, frames,
          warned, status, table, chunks, fp2, nsec, sel>>

streamVars == <<args, file, pc, pos, schema, hdrs, t_start, framenum, frames,
                warned, status, table, chunks>>

(***************************************************************************)
(* Bounds of the model.                                                    *)
(***************************************************************************)
MaxFileFrames == 3      \* complete frames in a file: 0..MaxFileFrames
MaxData       == 3      \* frame_data_size: at most MaxData bytes
MaxShort      == 2      \* frame_size falls short of header + footer by 0..MaxShort
MaxStride     == 2      \* row_stride: 1..MaxStride bytes
MaxTable      == 4      \* intended_table_size: 0..MaxTable rows
MaxLines      == 2      \* nlines, when given: 1..MaxLines
MaxChunk      == 1      \* chunksize, when given: 1..MaxChunk
SampleInterval == 2     \* dt, in time units
RecHi         == 102    \* the first header record number is RecLo or RecHi
RecLo         == 100

None == -1              \* Python's None for an optional integer

Min(a, b) == IF a < b THEN a ELSE b
Abs(a) == IF a < 0 THEN 0 - a ELSE a

\* Python's a // b on integers (floor), b # 0.
PyFloorDiv(a, b) == IF b > 0 THEN a \div b ELSE (0 - a) \div (0 - b)

(***************************************************************************)
(* file_handler.py: the format handlers.                                   *)
(***************************************************************************)
header_size(fmt) == IF fmt = "TOB3" THEN 12 ELSE 8
footer_size(fmt) == 4

\* TOB2.parse_header returns no record number, TOB3.parse_header the one of
\* header bytes 8..12.
parse_header_recnum(fmt, rec) == IF fmt = "TOB3" THEN rec ELSE None

(***************************************************************************)
(* The binary region of the file: nfile complete frames of frame_size      *)
(* bytes followed by the first `tail` bytes of one more frame.             *)
(***************************************************************************)
FileLen(fl) == fl.nfile * fl.frame_size + fl.tail

\* f.read(n) at offset p: the number of bytes returned. f.read(-1) reads to
\* the end of the file; a size below -1 is a ValueError and reads nothing.
ReadLen(fl, p, n) ==
    LET left == FileLen(fl) - p IN
    IF left <= 0 THEN 0
    ELSE IF n = -1 THEN left
    ELSE IF n <= 0 THEN 0
    ELSE Min(n, left)

\* CampbellFile.__post_init__: frame_data_size and frame_nrows (floor division).
frame_data_size(fl) == fl.frame_size - header_size(fl.fmt) - footer_size(fl.fmt)
frame_nrows(fl) == PyFloorDiv(frame_data_size(fl), fl.row_stride)

\* The derived schema's frame count; a zero divisor raises ZeroDivisionError.
nframes(fl) == PyFloorDiv(fl.intended_table_size, frame_nrows(fl))

\* CampbellFile.parse_frame_header: EOFError on an empty read; otherwise the
\* handler's parse_header on the bytes read. TOB3 decodes bytes 8.. as UINT4
\* with frombuffer(...)[0]: no byte there is an IndexError, one to three
\* bytes a ValueError. NSEC.from_bytes takes any number of bytes.
parse_frame_header(fl, p) ==
    LET hb == ReadLen(fl, p, header_size(fl.fmt)) IN
    IF hb = 0 THEN "EOFError"
    ELSE IF fl.fmt = "TOB3" /\ hb <= 8 THEN "IndexError"
    ELSE IF fl.fmt = "TOB3" /\ hb < 12 THEN "ValueError"
    ELSE "none"

\* vector_parser: the number of rows of the DataFrame it returns, or None
\* when the read is empty or raises, or np.frombuffer rejects the buffer
\* length; every exception is swallowed by its `except Exception: pass`.
vector_parser(fl, p) ==
    LET db == ReadLen(fl, p, frame_data_size(fl)) IN
    IF db = 0 THEN None
    ELSE IF db % fl.row_stride # 0 THEN None
    ELSE db \div fl.row_stride

\* CampbellFile.parse_frame_footer: EOFError on an empty read only.
parse_frame_footer(fl, p) ==
    IF ReadLen(fl, p, footer_size(fl.fmt)) = 0 THEN "EOFError" ELSE "none"

\* parse_whole_frame: header, data region, footer, in this order, each read
\* advancing the reader. h is the header the frame carries.
parse_whole_frame(fl, p, h) ==
    LET hb  == ReadLen(fl, p, header_size(fl.fmt))
        he  == parse_frame_header(fl, p)
        db  == ReadLen(fl, p + hb, frame_data_size(fl))
        dat == vector_parser(fl, p + hb)
        fb  == ReadLen(fl, p + hb + db, footer_size(fl.fmt))
        fe  == parse_frame_footer(fl, p + hb + db)
    IN  IF he # "none"
        THEN [exc |-> he, hts |-> 0, rec |-> None, data |-> None, pos |-> p + hb]
        ELSE IF fe # "none"
        THEN [exc |-> fe, hts |-> 0, rec |-> None, data |-> None,
              pos |-> p + hb + db]
        ELSE [exc |-> "none", hts |-> h.hts,
              rec |-> parse_header_recnum(fl.fmt, h.rec),
              data |-> dat, pos |-> p + hb + db + fb]

(***************************************************************************)
(* camp2ascii.py                                                           *)
(***************************************************************************)
\* The keyword parameters of def camp2ascii(fn, nlines=None).
camp2ascii_params == {"fn", "nlines"}

\* Binding a call's keywords: one the function does not declare is a TypeError.
BindsCall(keywords) == keywords \subseteq camp2ascii_params

\* expected_dt_per_frame without the sample interval.
expected_dt_per_frame_rows(fl) == frame_nrows(fl)

\* expected_dt_per_frame = csfile._frame_nrows * dt
expected_dt_per_frame(fl) == frame_nrows(fl) * SampleInterval

\* The number of loop iterations and of slots in `frames`.
LoopCount(fl, nl) ==
    LET n == IF nl # None THEN PyFloorDiv(nl, frame_nrows(fl)) ELSE nframes(fl) IN
    IF n < 0 THEN 0 ELSE n

Template == [stamped |-> FALSE, src |-> 0, ts0 |-> 0, rec |-> None]

\* frames = [df_dict_template] * n
TemplateList(n) == [i \in 1..n |-> Template]

\* frames[i] with Python's indexing: 0-based, negative from the end.
PyIndex(lst, i) == IF i < 0 THEN lst[Len(lst) + i + 1] ELSE lst[i + 1]

\* The drift test without the tolerance: at least the expected offset fires.
DriftDetected_geq(fl, lst, fnum, candidate_t_start) ==
    LET last == PyIndex(lst, fnum - 1) IN
    /\ last.stamped
    /\ Abs(candidate_t_start - last.ts0) >= expected_dt_per_frame(fl) * fnum

\* The drift test with the policy switched off.
DriftDetected_off(fl, lst, fnum, candidate_t_start) == FALSE

\* The drift test of the loop body; a slot without TIMESTAMP is a KeyError,
\* which skips the test.
DriftDetected(fl, lst, fnum, candidate_t_start) ==
    LET last == PyIndex(lst, fnum - 1) IN
    /\ last.stamped
    /\ 10 * Abs(candidate_t_start - last.ts0) > 11 * expected_dt_per_frame(fl) * fnum

\* date_range(t_start, freq=dt, periods=frame_nrows)[k]
date_range(t, k) == t + k * SampleInterval

\* np.arange(recnum_start, recnum_start + frame_nrows)[k]
record_range(r, k) == r + k

\* The rows one stamped frame contributes to the DataFrame.
FrameRows(fl, fr) ==
    [k \in 1..frame_nrows(fl) |->
        [TIMESTAMP |-> date_range(fr.ts0, k - 1),
         RECORD    |-> IF fr.rec = None THEN None ELSE record_range(fr.rec, k - 1),
         src       |-> fr.src,
         row       |-> k - 1]]

RECURSIVE ConcatFrames(_, _)
ConcatFrames(fl, lst) ==
    IF lst = <<>> THEN <<>>
    ELSE FrameRows(fl, Head(lst)) \o ConcatFrames(fl, Tail(lst))

\* compile_to_dataframe: all_data[0] of an empty list is an IndexError,
\* columns.remove("TIMESTAMP") on a slot without it a ValueError,
\* frame["TIMESTAMP"] of a later such slot a KeyError.
compile_to_dataframe(fl, lst) ==
    IF lst = <<>> THEN [status |-> "IndexError", table |-> <<>>]
    ELSE IF ~lst[1].stamped THEN [status |-> "ValueError", table |-> <<>>]
    ELSE IF \E i \in 1..Len(lst) : ~lst[i].stamped
    THEN [status |-> "KeyError", table |-> <<>>]
    ELSE [status |-> "ok", table |-> ConcatFrames(fl, lst)]

(***************************************************************************)
(* The inputs: how the decoder is called and the file it is given.         *)
(***************************************************************************)
Formats == {"TOB2", "TOB3"}

Files ==
    { fl \in [fmt : Formats,
              frame_size : (12 - MaxShort)..(16 + MaxData),
              row_stride : 1..MaxStride,
              intended_table_size : 0..MaxTable,
              nfile : 0..MaxFileFrames,
              tail : 0..(15 + MaxData)] :
        /\ frame_data_size(fl) \in (0 - MaxShort)..MaxData
        /\ fl.tail < fl.frame_size }

Calls ==
    { a \in [entry : {"main", "api"},
             chunksize : {None} \cup 1..MaxChunk,
             nlines : {None} \cup 1..MaxLines] :
        /\ a.entry = "api" => a.chunksize = None
        /\ a.entry = "main" => a.nlines = None }

\* main.py passes chunksize= and progress=; a direct call passes nlines=.
Keywords(a) == IF a.entry = "main" THEN {"chunksize", "progress"} ELSE {"nlines"}

\* The header timestamps a frame may carry: on the expected grid after the
\* previous header, one unit late, or back at the epoch.
FirstHeaderTimes == {0, 5}
HeaderTimes(fl, prev) ==
    {prev + expected_dt_per_frame(fl), prev + expected_dt_per_frame(fl) + 1, 0}
\* The record number in a frame header: either value in the first frame,
\* then the logger's count, which advances by one per row.
FirstRecNums(fl) == IF fl.fmt = "TOB3" THEN {RecLo, RecHi} ELSE {0}
NextRecNums(fl, prev) == IF fl.fmt = "TOB3" THEN {prev + frame_nrows(fl)} ELSE {0}

NoSchema == [frame_data_size |-> 0, frame_nrows |-> 0, nframes |-> 0]
FP2Idle == [b0 |-> 0, b1 |-> 0, done |-> FALSE, out |-> [kind |-> "num", m |-> 0, e |-> 0]]
NSECIdle == [b |-> <<0, 0, 0, 0, 0, 0, 0, 0>>, done |-> FALSE,
             out |-> [hi |-> 0, lo |-> 0, ms |-> 0, err |-> 0]]
SelIdle == [file_dtypes |-> <<>>, done |-> FALSE, is_vector_readable |-> FALSE,
            parser |-> "none"]

Init ==
    /\ args \in Calls
    /\ file \in Files
    /\ pc = "call"
    /\ pos = 0
    /\ schema = NoSchema
    /\ hdrs = <<>>
    /\ t_start = 0
    /\ framenum = 0
    /\ frames = <<>>
    /\ warned = <<>>
    /\ status = "running"
    /\ table = <<>>
    /\ chunks = <<>>
    /\ fp2 = FP2Idle
    /\ nsec = NSECIdle
    /\ sel = SelIdle

\* The two warnings of the loop; the drift message carries both clocks.
EOFWarning == [kind |-> "EOFError", from |-> 0, to |-> 0]
DriftWarning(last_frame_t_start, candidate_t_start) ==
    [kind |-> "ClockDrift", from |-> last_frame_t_start, to |-> candidate_t_start]

Finish(st, tb) ==
    /\ status' = st
    /\ table' = tb
    /\ pc' = "done"

\* main.py line 30 / a direct call: the call is bound, the six header lines
\* are read and the schema derived (camp2ascii.py lines 26-86).
Call ==
    /\ pc = "call"
    /\ IF ~BindsCall(Keywords(args))
       THEN /\ Finish("TypeError", <<>>)
            /\ UNCHANGED schema
       ELSE IF frame_nrows(file) = 0
       THEN /\ Finish("ZeroDivisionError", <<>>)
            /\ UNCHANGED schema
       ELSE /\ schema' = [frame_data_size |-> frame_data_size(file),
                          frame_nrows |-> frame_nrows(file),
                          nframes |-> nframes(file)]
            /\ pc' = "first"
            /\ UNCHANGED <<status, table>>
    /\ UNCHANGED <<args, file, pos, hdrs, t_start, framenum, frames, warned,
                   chunks, fp2, nsec, sel>>

\* camp2ascii.py lines 87-95: the frame read before the loop, outside the
\* try; its copy becomes every slot of `frames`.
ReadFirstFrame ==
    /\ pc = "first"
    /\ \E t \in FirstHeaderTimes, r \in FirstRecNums(file) :
         LET h == [hts |-> t, rec |-> r]
             f == parse_whole_frame(file, pos, h)
         IN  /\ pos' = f.pos
             /\ IF f.exc # "none"
                THEN /\ Finish(f.exc, <<>>)
                     /\ UNCHANGED <<hdrs, t_start, frames>>
                ELSE IF f.data = None
                THEN /\ Finish("AttributeError", <<>>)
                     /\ UNCHANGED <<hdrs, t_start, frames>>
                ELSE /\ hdrs' = <<[hts |-> f.hts, rec |-> f.rec]>>
                     /\ t_start' = f.hts
                     /\ frames' = TemplateList(LoopCount(file, args.nlines))
                     /\ pc' = "loop"
                     /\ UNCHANGED <<status, table>>
    /\ UNCHANGED <<args, file, schema, framenum, warned, chunks, fp2, nsec, sel>>

\* One iteration of the loop body (lines 96-114) with the handler of lines
\* 115-118 when the read raises.
FrameLoopStep ==
    /\ pc = "loop"
    /\ framenum < Len(frames)
    /\ \E t \in HeaderTimes(file, hdrs[Len(hdrs)].hts),
          r \in NextRecNums(file, hdrs[Len(hdrs)].rec) :
         LET h == [hts |-> t, rec |-> r]
             f == parse_whole_frame(file, pos, h)
             drift == DriftDetected(file, frames, framenum, f.hts)
             t1 == t_start + expected_dt_per_frame(file)
             t2 == IF drift THEN f.hts ELSE t1
             out == compile_to_dataframe(file, frames)
         IN  /\ pos' = f.pos
             /\ IF f.exc \in {"EOFError", "IndexError"}
                THEN /\ warned' = Append(warned, EOFWarning)
                     /\ Finish(out.status, out.table)
                     /\ UNCHANGED <<hdrs, t_start, framenum, frames>>
                ELSE IF f.exc # "none"
                THEN /\ Finish(f.exc, <<>>)
                     /\ UNCHANGED <<hdrs, t_start, framenum, frames, warned>>
                ELSE /\ t_start' = t2
                     /\ warned' = IF drift
                                  THEN Append(warned, DriftWarning(
                                           PyIndex(frames, framenum - 1).ts0, f.hts))
                                  ELSE warned
                     /\ IF f.data = None
                        THEN /\ Finish("TypeError", <<>>)
                             /\ UNCHANGED <<hdrs, framenum, frames>>
                        ELSE /\ frames' = [frames EXCEPT ![framenum + 1] =
                                   [stamped |-> TRUE, src |-> Len(hdrs),
                                    ts0 |-> t2, rec |-> f.rec]]
                             /\ hdrs' = Append(hdrs, [hts |-> f.hts, rec |-> f.rec])
                             /\ framenum' = framenum + 1
                             /\ UNCHANGED <<pc, status, table>>
    /\ UNCHANGED <<args, file, schema, chunks, fp2, nsec, sel>>

\* Line 119: the loop is exhausted and the frames are compiled.
FrameLoopEnd ==
    /\ pc = "loop"
    /\ framenum = Len(frames)
    /\ LET out == compile_to_dataframe(file, frames)
       IN  Finish(out.status, out.table)
    /\ UNCHANGED <<args, file, pos, schema, hdrs, t_start, framenum, frames,
                   warned, chunks, fp2, nsec, sel>>

Next == Call \/ ReadFirstFrame \/ FrameLoopStep \/ FrameLoopEnd

Spec == Init /\ [][Next]_vars

(***************************************************************************)
(* cs_types.py: FP2.from_bytes. A decoded value is +inf, -inf, NaN or the  *)
(* decimal m * 10^(-e) that is handed to the float16 constructor.          *)
(***************************************************************************)
\* int.from_bytes(b, byteorder="little", signed=False) of two bytes
FP2_word(b0, b1) == b0 + 256 * b1

\* FP2_decode with the mantissa mask one bit short (0x0fff for 0x1fff).
FP2_decode_mask12(tmp) ==
    LET S == tmp \div 32768
        E == (tmp \div 8192) % 4
        M == tmp % 4096
    IN  IF S = 0 /\ E = 0 /\ M = 8191 THEN [kind |-> "inf", m |-> 0, e |-> 0]
        ELSE IF S = 1 /\ E = 0 /\ M = 8191 THEN [kind |-> "-inf", m |-> 0, e |-> 0]
        ELSE IF S = 1 /\ E = 0 /\ M = 8190 THEN [kind |-> "nan", m |-> 0, e |-> 0]
        ELSE [kind |-> "num", m |-> (1 - 2 * S) * M, e |-> E]

\* Lines 36-48: the fields of the word and the match on them.
FP2_decode(tmp) ==
    LET S == tmp \div 32768
        E == (tmp \div 8192) % 4
        M == tmp % 8192
    IN  IF S = 0 /\ E = 0 /\ M = 8191 THEN [kind |-> "inf", m |-> 0, e |-> 0]
        ELSE IF S = 1 /\ E = 0 /\ M = 8191 THEN [kind |-> "-inf", m |-> 0, e |-> 0]
        ELSE IF S = 1 /\ E = 0 /\ M = 8190 THEN [kind |-> "nan", m |-> 0, e |-> 0]
        ELSE [kind |-> "num", m |-> (1 - 2 * S) * M, e |-> E]

FP2_from_bytes(b0, b1) == FP2_decode(FP2_word(b0, b1))

InitFP2 ==
    /\ args = [entry |-> "api", chunksize |-> None, nlines |-> None]
    /\ file = [fmt |-> "TOB3", frame_size |-> 16, row_stride |-> 1,
               intended_table_size |-> 0, nfile |-> 0, tail |-> 0]
    /\ pc = "types"
    /\ pos = 0
    /\ schema = NoSchema
    /\ hdrs = <<>>
    /\ t_start = 0
    /\ framenum = 0
    /\ frames = <<>>
    /\ warned = <<>>
    /\ status = "running"
    /\ table = <<>>
    /\ chunks = <<>>
    /\ fp2 \in [b0 : 0..255, b1 : 0..255, done : {FALSE}, out : {FP2Idle.out}]
    /\ nsec = NSECIdle
    /\ sel = SelIdle

DecodeFP2 ==
    /\ ~fp2.done
    /\ fp2' = [fp2 EXCEPT !.done = TRUE, !.out = FP2_from_bytes(fp2.b0, fp2.b1)]
    /\ UNCHANGED <<streamVars, nsec, sel>>

SpecFP2 == InitFP2 /\ [][DecodeFP2]_vars

(***************************************************************************)
(* cs_types.py: NSEC.from_bytes. Seconds exceed 31 bits, so an instant is  *)
(* kept as seconds (two 16-bit halves), whole milliseconds and a remainder *)
(* in nanoseconds: 1990-01-01 + (65536*hi + lo) s + ms ms + err ns.        *)
(***************************************************************************)
\* The byte values the inputs are built from.
NSECBytes == {0, 1, 16, 64, 255}

\* np.int64(NS) // 1e6 for NS = 65536*nhi + nlo (10^6 = 64 * 15625)
MillisOf(nhi, nlo) == (nhi * 1024 + nlo \div 64) \div 15625

\* S*10^9 + ms*10^6 >= 2^k, for 2^k = (65536*khi + klo) s + a fraction of a
\* second that lies between thr-1 and thr milliseconds.
TotalAtLeast(hi, lo, ms, khi, klo, thr) ==
    IF hi > khi + 1 THEN TRUE
    ELSE IF hi < khi - 1 THEN FALSE
    ELSE ((hi - khi) * 65536 + lo - klo) * 1000 + ms >= thr

\* The spacing of float64 values around the total, in units of 64 ns:
\* 1 below 2^59 ns, then doubling at 2^59, 2^60 and 2^61 ns.
Float64Grid(hi, lo, ms) ==
    IF TotalAtLeast(hi, lo, ms, 35184, 24385, 214) THEN 8
    ELSE IF TotalAtLeast(hi, lo, ms, 17592, 12192, 607) THEN 4
    ELSE IF TotalAtLeast(hi, lo, ms, 8796, 6096, 304) THEN 2
    ELSE 1

\* Line 21: an int64 plus a float64 is a float64. Both terms are exact; the
\* sum, a multiple of 64 ns, is rounded to the nearest float64, ties to
\* even. The result is the rounding error in ns.
Float64SumError(hi, lo, ms) ==
    LET g   == Float64Grid(hi, lo, ms)
        u16 == (8 * (lo % 2) + 9 * ms) % 16     \* (total / 64) mod 16
        m   == u16 % g
        q   == (u16 \div g) % 2
        eu  == IF m = 0 THEN 0
               ELSE IF 2 * m < g THEN 0 - m
               ELSE IF 2 * m > g THEN g - m
               ELSE IF q = 0 THEN 0 - m ELSE m
    IN  64 * eu

\* NSEC.from_bytes(b): b[1..4] the seconds, b[5..8] the nanoseconds, both
\* little-endian.
NSEC_from_bytes(b) ==
    LET lo  == b[1] + 256 * b[2]
        hi  == b[3] + 256 * b[4]
        nlo == b[5] + 256 * b[6]
        nhi == b[7] + 256 * b[8]
        ms  == MillisOf(nhi, nlo)
    IN  [hi |-> hi, lo |-> lo, ms |-> ms, err |-> Float64SumError(hi, lo, ms)]

InitNSEC ==
    /\ args = [entry |-> "api", chunksize |-> None, nlines |-> None]
    /\ file = [fmt |-> "TOB3", frame_size |-> 16, row_stride |-> 1,
               intended_table_size |-> 0, nfile |-> 0, tail |-> 0]
    /\ pc = "types"
    /\ pos = 0
    /\ schema = NoSchema
    /\ hdrs = <<>>
    /\ t_start = 0
    /\ framenum = 0
    /\ frames = <<>>
    /\ warned = <<>>
    /\ status = "running"
    /\ table = <<>>
    /\ chunks = <<>>
    /\ fp2 = FP2Idle
    /\ nsec \in [b : [1..8 -> NSECBytes], done : {FALSE}, out : {NSECIdle.out}]
    /\ sel = SelIdle

\* TOB2.parse_header(b) and TOB3.parse_header(b) return this for b[:8].
DecodeNSEC ==
    /\ ~nsec.done
    /\ nsec' = [nsec EXCEPT !.done = TRUE, !.out = NSEC_from_bytes(nsec.b)]
    /\ UNCHANGED <<streamVars, fp2, sel>>

SpecNSEC == InitNSEC /\ [][DecodeNSEC]_vars

(***************************************************************************)
(* cs_types.py and file_handler.py: the choice of the decode path.         *)
(***************************************************************************)
MaxCols == 3            \* columns in the dtype line: 1..MaxCols

\* The names of the native numpy types, as the module registers them.
np_readable_type_registry ==
    {"IEEE4", "IEEE4B", "IEEE8", "IEEE8B", "Long", "UINT1", "UINT1B", "UINT2",
     "UINT2B", "UINT4", "UINT4B", "Bool8", "Bool8B", "ULONG", "LONG", "Boolean"}
proprietary_type_registry == {"NSEC", "SecNano", "FP2"}

\* The dtype names a column of the modelled files may carry; ASCIINames are
\* those for which `"ASCII" in name` is true.
ASCIINames == {"ASCII(4)"}
DTypeNames == {"IEEE4B", "UINT2"} \cup proprietary_type_registry \cup ASCIINames
DTypeLists == UNION {[1..n -> DTypeNames] : n \in 1..MaxCols}

\* handle_string_type: every ASCII(n) name of the file is added to
\* np_readable_type_registry (and to dtype_registry); the result is the
\* registry of np-readable names afterwards.
handle_string_type(file_dtypes) ==
    np_readable_type_registry
        \cup {file_dtypes[i] : i \in {j \in DOMAIN file_dtypes : file_dtypes[j] \in ASCIINames}}

\* sum(d in np_readable_type_registry for d in file_dtypes)
CountReadable(file_dtypes, registry) ==
    Cardinality({i \in DOMAIN file_dtypes : file_dtypes[i] \in registry})

\* CampbellFile.__post_init__: the count of np-readable columns is compared
\* with n_dtypes = len(set(file_dtypes)), the number of distinct names.
is_vector_readable(file_dtypes, registry) ==
    CountReadable(file_dtypes, registry)
        = Cardinality({file_dtypes[i] : i \in DOMAIN file_dtypes})

\* CampbellFile.data_parser: data_parser_registry indexed by the flag.
data_parser(flag) == IF flag THEN "vector_parser" ELSE "nonvector_parser"

\* data_parser_factory: vector_parser when every column is in the registry,
\* else a parser assembled column by column.
data_parser_factory(file_dtypes, registry) ==
    IF CountReadable(file_dtypes, registry) = Len(file_dtypes)
    THEN "vector_parser"
    ELSE "parser"

InitTypes ==
    /\ args = [entry |-> "api", chunksize |-> None, nlines |-> None]
    /\ file = [fmt |-> "TOB3", frame_size |-> 16, row_stride |-> 1,
               intended_table_size |-> 0, nfile |-> 0, tail |-> 0]
    /\ pc = "types"
    /\ pos = 0
    /\ schema = NoSchema
    /\ hdrs = <<>>
    /\ t_start = 0
    /\ framenum = 0
    /\ frames = <<>>
    /\ warned = <<>>
    /\ status = "running"
    /\ table = <<>>
    /\ chunks = <<>>
    /\ fp2 = FP2Idle
    /\ nsec = NSECIdle
    /\ sel \in [file_dtypes : DTypeLists, done : {FALSE},
                is_vector_readable : {FALSE}, parser : {"none"}]

\* camp2ascii lines 68-71: the dtype line is read, handle_string_type
\* registers the string types, and the schema is derived.
SelectParser ==
    /\ ~sel.done
    /\ LET registry == handle_string_type(sel.file_dtypes)
       IN sel' = [sel EXCEPT
                    !.done = TRUE,
                    !.is_vector_readable =
                        is_vector_readable(sel.file_dtypes, registry),
                    !.parser = data_parser_factory(sel.file_dtypes, registry)]
    /\ UNCHANGED <<streamVars, fp2, nsec>>

SpecTypes == InitTypes /\ [][SelectParser]_vars

(***************************************************************************)
(* Properties of the frame loop (checked under Spec).                      *)
(***************************************************************************)
\* A schema the frames of the file fit: whole rows, at least one per frame.
ValidSchema(fl) ==
    /\ frame_data_size(fl) % fl.row_stride = 0
    /\ frame_nrows(fl) >= 1

RowIds(tb) == {<<tb[i].src, tb[i].row>> : i \in 1..Len(tb)}
FrameRowIds(fl, js) == {<<j, k>> : j \in js, k \in 0..(frame_nrows(fl) - 1)}
Warned(kind) == \E i \in 1..Len(warned) : warned[i].kind = kind

RECURSIVE Flatten(_)
Flatten(ss) == IF ss = <<>> THEN <<>> ELSE Head(ss) \o Flatten(Tail(ss))

\* C1: a call with a chunksize, as main.py makes it, on a file with at least
\* one complete frame yields chunks that all have chunksize rows, except
\* the last, which has 1..chunksize rows, and that concatenate to the table.
C1_ChunkedDecoding ==
    (/\ pc = "done"
     /\ args.chunksize # None
     /\ ValidSchema(file)
     /\ file.nfile >= 1)
    => /\ status = "ok"
       /\ chunks # <<>>
       /\ \A i \in 1..(Len(chunks) - 1) : Len(chunks[i]) = args.chunksize
       /\ Len(chunks[Len(chunks)]) \in 1..args.chunksize
       /\ Flatten(chunks) = table

\* C2: the returned table has at most intended_table_size rows, and exactly
\* nframes * frame_nrows rows when the file holds all nframes complete frames.
C2_RowCount ==
    pc = "done" =>
        /\ Len(table) <= file.intended_table_size
        /\ (/\ args.entry = "api"
            /\ args.nlines = None
            /\ ValidSchema(file)
            /\ nframes(file) >= 1
            /\ file.nfile = nframes(file)
            /\ file.tail = 0)
           => Len(table) = nframes(file) * frame_nrows(file)

\* C3: the first output row carries the first frame's header timestamp T0,
\* and row k of the j-th frame of the file carries
\* T0 + j * frame_duration + k * sample_interval.
C3_ReferenceClock ==
    (pc = "done" /\ status = "ok") =>
        /\ table # <<>>
        /\ table[1].TIMESTAMP = hdrs[1].hts
        /\ \A i \in 1..Len(table) :
              table[i].TIMESTAMP =
                  hdrs[1].hts + table[i].src * expected_dt_per_frame(file)
                              + table[i].row * SampleInterval

\* C4 as stated: in every returned table consecutive rows differ by exactly
\* sample_interval, inside a frame and across frame boundaries, whatever the
\* header timestamps.
C4_StepExact ==
    (pc = "done" /\ status = "ok") =>
        \A i \in 1..(Len(table) - 1) :
            table[i + 1].TIMESTAMP = table[i].TIMESTAMP + SampleInterval

\* C4 as amended: inside a frame consecutive rows differ by exactly
\* sample_interval; across a frame boundary they do too, unless the drift
\* warning was issued for the later frame, which then starts at the header
\* timestamp the warning names.
C4_StepExactUnlessDrift ==
    (pc = "done" /\ status = "ok") =>
        \A i \in 1..(Len(table) - 1) :
            IF table[i + 1].src = table[i].src
            THEN table[i + 1].TIMESTAMP = table[i].TIMESTAMP + SampleInterval
            ELSE \/ table[i + 1].TIMESTAMP = table[i].TIMESTAMP + SampleInterval
                 \/ /\ table[i + 1].row = 0
                    /\ table[i + 1].TIMESTAMP = hdrs[table[i + 1].src + 1].hts
                    /\ \E w \in 1..Len(warned) :
                          warned[w] = DriftWarning(
                              table[i].TIMESTAMP - table[i].row * SampleInterval,
                              table[i + 1].TIMESTAMP)

\* C4 witness: a table of two frames, with rows inside a frame, was returned
\* after the drift warning was issued for its second frame.
C4_Witness ==
    /\ pc = "done"
    /\ status = "ok"
    /\ frame_nrows(file) >= 2
    /\ Len(table) = 2 * frame_nrows(file)
    /\ Warned("ClockDrift")
    /\ table[frame_nrows(file) + 1].TIMESTAMP
           # table[frame_nrows(file)].TIMESTAMP + SampleInterval

\* C5: in a TOB3 table the RECORD column is, frame by frame for every frame
\* decoded, the header record number plus the row index; a TOB2 table has
\* no RECORD column.
C5_RecordColumn ==
    (pc = "done" /\ status = "ok") =>
        IF file.fmt = "TOB3"
        THEN /\ Len(table) = Len(hdrs) * frame_nrows(file)
             /\ \A i \in 1..Len(table) :
                   table[i].RECORD =
                       hdrs[(i - 1) \div frame_nrows(file) + 1].rec
                           + ((i - 1) % frame_nrows(file))
        ELSE \A i \in 1..Len(table) : table[i].RECORD = None

\* C6: when the loop's header read returns zero bytes at a frame boundary,
\* the run ends normally, without a warning, and the table holds the rows of
\* every frame decoded before.
C6_CleanEndOfStream ==
    (/\ pc = "done"
     /\ ValidSchema(file)
     /\ hdrs # <<>>
     /\ framenum < Len(frames)
     /\ file.tail = 0
     /\ pos = FileLen(file))
    => /\ status = "ok"
       /\ warned = <<>>
       /\ RowIds(table) = FrameRowIds(file, 0..(Len(hdrs) - 1))

\* C7: when the decoder runs into a final frame cut short by 1 to
\* frame_size - 1 bytes, it does not fail, it warns, and the table holds
\* exactly the rows of the complete frames before the cut one.
C7_TruncatedFinalFrame ==
    (/\ pc = "done"
     /\ args.entry = "api"
     /\ ValidSchema(file)
     /\ file.nfile >= 1
     /\ file.tail >= 1
     /\ pos > file.nfile * file.frame_size)
    => /\ status = "ok"
       /\ Warned("EOFError")
       /\ RowIds(table) = FrameRowIds(file, 0..(file.nfile - 1))
       /\ Len(table) = file.nfile * frame_nrows(file)

(***************************************************************************)
(* Properties of FP2.from_bytes (checked under SpecFP2).                   *)
(***************************************************************************)
\* C8: the two bytes are read as a big-endian word with S = bit 15,
\* E = bits 14-13, M = bits 12-0; (0,0,8191) is +inf, (1,0,8191) -inf,
\* (1,0,8190) NaN, and every other word (1 - 2S) * M * 10^(-E).
C8_FP2BigEndian ==
    fp2.done =>
        LET w == 256 * fp2.b0 + fp2.b1
            S == w \div 32768
            E == (w \div 8192) % 4
            M == w % 8192
        IN  IF <<S, E, M>> = <<0, 0, 8191>> THEN fp2.out.kind = "inf"
            ELSE IF <<S, E, M>> = <<1, 0, 8191>> THEN fp2.out.kind = "-inf"
            ELSE IF <<S, E, M>> = <<1, 0, 8190>> THEN fp2.out.kind = "nan"
            ELSE fp2.out = [kind |-> "num", m |-> (1 - 2 * S) * M, e |-> E]

C10_NSECExact ==
    nsec.done =>
        /\ nsec.out.lo = nsec.b[1] + 256 * nsec.b[2]
        /\ nsec.out.hi = nsec.b[3] + 256 * nsec.b[4]
        /\ nsec.out.ms =
               ((nsec.b[7] + 256 * nsec.b[8]) * 1024
                   + (nsec.b[5] + 256 * nsec.b[6]) \div 64) \div 15625
        /\ nsec.out.err = 0

\* C13 as stated: with default arguments, whatever the header timestamps,
\* t_start after the first frame is only ever advanced by frame_duration per
\* frame, never reset to a header timestamp, and no drift warning is raised.
C13_DriftDisabled ==
    (pc = "loop" /\ args.nlines = None) =>
        /\ ~Warned("ClockDrift")
        /\ t_start = hdrs[1].hts + framenum * schema.frame_nrows * SampleInterval

\* C13 as amended: the drift policy is enabled. When iteration framenum
\* stores a frame, then if framenum >= 1 and the frame's header timestamp is
\* further than 1.1 * frame_duration * framenum from the previous stored
\* frame's first TIMESTAMP, the drift warning naming both is raised and
\* t_start becomes the header timestamp; otherwise t_start advances by
\* frame_duration and no warning is raised.
C13_DriftPolicy ==
    [][framenum' = framenum + 1 =>
        LET c == hdrs'[Len(hdrs')].hts
            D == schema.frame_nrows * SampleInterval
            fires == /\ framenum >= 1
                     /\ 10 * Abs(c - frames[framenum].ts0) > 11 * D * framenum
        IN  IF fires
            THEN /\ t_start' = c
                 /\ warned' = Append(warned, DriftWarning(frames[framenum].ts0, c))
            ELSE /\ t_start' = t_start + D
                 /\ warned' = warned]_vars

\* C13 witness: a default call is in its loop, the latest iteration raised
\* the drift warning and set t_start to the header timestamp of its frame,
\* which is not one frame_duration after the previous frame's start.
C13_Witness ==
    /\ pc = "loop"
    /\ args.nlines = None
    /\ framenum >= 2
    /\ warned # <<>>
    /\ warned[Len(warned)] = DriftWarning(frames[framenum - 1].ts0, t_start)
    /\ t_start = hdrs[Len(hdrs)].hts
    /\ frames[framenum].ts0 = t_start
    /\ t_start # frames[framenum - 1].ts0 + schema.frame_nrows * SampleInterval

\* The frame_data_size is a non-negative whole number of rows.
SchemaFits(fl) ==
    /\ frame_data_size(fl) >= 0
    /\ frame_data_size(fl) % fl.row_stride = 0

\* C12: when frame_data_size is negative or not a multiple of row_stride,
\* schema construction fails with a fatal error, no frame is decoded and no
\* data is emitted; otherwise frame_nrows * row_stride = frame_data_size.
C12_SchemaCheck ==
    args.entry = "api" =>
        IF SchemaFits(file)
        THEN pc \in {"first", "loop"} =>
                schema.frame_nrows * file.row_stride = schema.frame_data_size
        ELSE /\ pc \in {"call", "done"}
             /\ pos = 0
             /\ hdrs = <<>>
             /\ table = <<>>
             /\ pc = "done" => status \notin {"running", "ok"}

\* C14: a run that decoded m complete frames of the file, with a loop of at
\* least one iteration, and ended by exhausting the loop or by EOF returns a
\* table made of exactly the rows of those m frames, the frame read before
\* the loop included, each row once and in file order.
C14_FramesInFileOrder ==
    (/\ pc = "done"
     /\ args.entry = "api"
     /\ ValidSchema(file)
     /\ hdrs # <<>>
     /\ Len(hdrs) <= file.nfile
     /\ frames # <<>>
     /\ framenum = Len(frames) \/ Warned("EOFError"))
    => /\ status = "ok"
       /\ Len(table) = Len(hdrs) * frame_nrows(file)
       /\ \A i \in 1..Len(table) :
             /\ table[i].src = (i - 1) \div frame_nrows(file)
             /\ table[i].row = ((i - 1) % frame_nrows(file))

\* Every header read so far is one frame_duration after the one before it.
RegularHeaders ==
    \A j \in 2..Len(hdrs) :
        hdrs[j].hts = hdrs[j - 1].hts + schema.frame_nrows * SampleInterval

\* C15: while every frame's header timestamp is the previous one plus
\* frame_duration, the drift test is false or skipped on every iteration,
\* iteration 0 included: no drift warning is raised, t_start is the first
\* header timestamp plus framenum * frame_duration, and every stored frame
\* starts on that grid.
C15_NoFalseDrift ==
    (hdrs # <<>> /\ RegularHeaders) =>
        /\ ~Warned("ClockDrift")
        /\ pc = "loop" =>
              t_start = hdrs[1].hts + framenum * schema.frame_nrows * SampleInterval
        /\ \A i \in 1..Len(frames) :
              frames[i].stamped =>
                  frames[i].ts0 =
                      hdrs[1].hts + i * schema.frame_nrows * SampleInterval

\* C15 witness: a table was returned after three frames with regular
\* headers were read, two of them in the loop, and nothing was warned.
C15_Witness ==
    /\ pc = "done"
    /\ status = "ok"
    /\ Len(hdrs) >= 3
    /\ framenum >= 2
    /\ RegularHeaders
    /\ warned = <<>>
    /\ table # <<>>

(***************************************************************************)
(* Properties of the choice of the decode path (checked under SpecTypes).  *)
(***************************************************************************)
NativeOnly(file_dtypes) ==
    \A i \in DOMAIN file_dtypes : file_dtypes[i] \in np_readable_type_registry

\* C11: for every dtype list the vector path is selected (is_vector_readable
\* is true, data_parser_factory returns vector_parser) exactly when every
\* column's dtype is a native numeric type, repeated names included; a list
\* with FP2, NSEC, SecNano or an ASCII(n) type selects the scalar path.
C11_StrategySelection ==
    sel.done =>
        /\ sel.is_vector_readable <=> NativeOnly(sel.file_dtypes)
        /\ data_parser(sel.is_vector_readable) = "vector_parser"
               <=> NativeOnly(sel.file_dtypes)
        /\ sel.parser = "vector_parser" <=> NativeOnly(sel.file_dtypes)
====
